---------------------------- MODULE Spec2Model ----------------------------
(***************************************************************************)
(* Two command-line tools that rewrite a JSON scene file:                  *)
(*   cleanup_colliders.py        (Collider Cleaner)                        *)
(*   MD/OLD MD/expand_tilemap.py (Tile Expander)                           *)
(* Strings whose characters the code inspects (names, paths, the           *)
(* operator's answer) are sequences of one-character strings.              *)
(***************************************************************************)
EXTENDS Integers, Sequences, FiniteSets, TLC

VARIABLES
    \* ---- Collider Cleaner ----
    pc,                 \* position in main / cleanup_scene_colliders
    argv,               \* sys.argv[1:]
    response,           \* the operator's answer, stripped and lower-cased
    fs,                 \* the file system: path -> file content
    scene_data,         \* the in-memory document of cleanup_scene_colliders
    collider_entities,  \* the identified entity-identifier set
    events,             \* what this run has done so far, in order
    exitCode,           \* process exit status (NoExit while running)
    outcome,            \* how this run ended
    fs0,                \* history: the file system when this run started
    prevOutcome,        \* history: how the previous run ended
    \* ---- Tile Expander ----
    tpc,                \* position in expand_tilemap / __main__
    disk,               \* the scene file of the Tile Expander
    params,             \* old_width, old_height, new_width, new_height
    ret,                \* expand_tilemap's return value
    texit,              \* process exit status of expand_tilemap.py
    disk0,              \* history: the scene file when this run started
    prevRet             \* history: the previous run's return value

cvars == <<pc, argv, response, fs, scene_data, collider_entities, events,
           exitCode, outcome, fs0, prevOutcome>>
evars == <<tpc, disk, params, ret, texit, disk0, prevRet>>
vars  == <<cvars, evars>>

-----------------------------------------------------------------------------
(* Bounds *)
MaxEntries == 3     \* most entries an initial scene holds in all
MaxOld == 2         \* largest old_width / old_height
MaxNew == 3         \* largest new_width / new_height

\* exitCode while the process is still running
NoExit == 0 - 1

-----------------------------------------------------------------------------
(* Character strings *)

RECURSIVE StartsWith(_, _)
\* str.startswith(prefix)
StartsWith(s, p) ==
    IF p = <<>> THEN TRUE
    ELSE IF s = <<>> THEN FALSE
    ELSE Head(s) = Head(p) /\ StartsWith(Tail(s), Tail(p))

PrefixComposite ==
    <<"C","o","m","p","o","s","i","t","e","C","o","l","l","i","d","e","r">>
PrefixCollider == <<"C","o","l","l","i","d","e","r","_">>

\* the test of lines 29-30
IsColliderName(entity_name) ==
    StartsWith(entity_name, PrefixComposite) \/ StartsWith(entity_name, PrefixCollider)

-----------------------------------------------------------------------------
(* Scene documents of the Collider Cleaner *)

EntityIds == {1, 2}

NameCompositeA == PrefixComposite \o <<"_","A">>
NameCollider1  == PrefixCollider \o <<"1">>
NameCollider   == <<"C","o","l","l","i","d","e","r">>
EntityNames == {NameCompositeA, NameCollider1, NameCollider}
Payload == <<"{","}">>

\* A section entry.  kind "list", n >= 1: a JSON list whose first element is
\* id (and, for n = 2, whose second element is name); kind "list", n = 0: the
\* empty list; kind "scalar": a JSON number id that is not a list.
ListEntry(id, name) == [kind |-> "list", n |-> 2, id |-> id, name |-> name]
EmptyListEntry      == [kind |-> "list", n |-> 0, id |-> 0, name |-> <<>>]
ScalarEntry(v)      == [kind |-> "scalar", n |-> 0, id |-> v, name |-> <<>>]

NameEntries == {ListEntry(i, nm) : i \in EntityIds, nm \in EntityNames}
BodyEntries == {ListEntry(i, Payload) : i \in EntityIds}
                 \cup {EmptyListEntry, ScalarEntry(1)}

SeqsUpTo(S, k) == UNION {[1..m -> S] : m \in 0..k}

\* A top-level section: absent, a list of entries, or any other JSON value.
AbsentSection   == [kind |-> "absent", entries |-> <<>>]
OtherSection    == [kind |-> "other", entries |-> <<>>]
ListSection(es) == [kind |-> "list", entries |-> es]

SectionNames == {"names", "bodies"}

\* The scenes a run may find on disk: `names` absent or a list of
\* (id, name) pairs, `bodies` a list of arbitrary entries or a non-list
\* value, with at most MaxEntries entries in all.
InitialScenes ==
    {[names |-> nsec, bodies |-> bsec] :
        nsec \in {AbsentSection}, bsec \in {OtherSection} \cup
            {ListSection(es) : es \in SeqsUpTo(BodyEntries, MaxEntries)}}
    \cup
    UNION {{[names |-> ListSection(ns), bodies |-> bsec] :
              ns \in [1..a -> NameEntries],
              bsec \in {OtherSection} \cup
                  {ListSection(es) : es \in SeqsUpTo(BodyEntries, MaxEntries - a)}} :
           a \in 0..MaxEntries}

NoDoc == [names |-> AbsentSection, bodies |-> AbsentSection]

\* File contents: no such file, a JSON document, or a truncated write.
Absent    == [kind |-> "absent",  doc |-> NoDoc]
Partial   == [kind |-> "partial", doc |-> NoDoc]
DocFile(d) == [kind |-> "doc", doc |-> d]

-----------------------------------------------------------------------------
(* Paths *)

PathScene   == <<"a",".","j","s","o","n">>
PathMissing == <<"b",".","j","s","o","n">>
PathText    == <<"a",".","t","x","t">>
PathHidden  == <<".","j","s","o","n">>
PathBackup  == <<"a",".","j","s","o","n",".","b","a","c","k","u","p">>
Paths == {PathScene, PathMissing, PathText, PathHidden, PathBackup}

SuffixJson   == <<".","j","s","o","n">>
SuffixBackup == <<".","j","s","o","n",".","b","a","c","k","u","p">>

\* str.rfind('.') + 1 (0 when there is no dot)
RFindDot(name) ==
    LET dots == {i \in 1..Len(name) : name[i] = "."}
    IN  IF dots = {} THEN 0 ELSE CHOOSE i \in dots : \A j \in dots : j <= i

\* Path.suffix: the last dot-component, unless the dot leads or ends the name
PathSuffix(path) ==
    LET k == RFindDot(path)
    IN  IF 1 < k /\ k < Len(path) THEN SubSeq(path, k, Len(path)) ELSE <<>>

\* Path.with_suffix(suffix)
WithSuffix(path, suffix) ==
    LET old == PathSuffix(path)
    IN  IF old = <<>> THEN path \o suffix
        ELSE SubSeq(path, 1, Len(path) - Len(old)) \o suffix

\* Exists without the check
ExistsAlways(files, path) == TRUE

\* Path.exists()
Exists(files, path) == path \in DOMAIN files /\ files[path].kind # "absent"

\* sys.argv[1:]
ArgLists == {<<>>} \cup {<<p>> : p \in Paths} \cup {<<PathScene, PathText>>}

-----------------------------------------------------------------------------
(* The operator's answer *)

Whitespace == {" "}
LowerOf == [c \in {"Y","E","S","N","y","e","s","n"," ","!"} |->
              CASE c = "Y" -> "y" [] c = "E" -> "e" [] c = "S" -> "s"
                [] c = "N" -> "n" [] OTHER -> c]

RECURSIVE LStrip(_)
LStrip(s) == IF s # <<>> /\ Head(s) \in Whitespace THEN LStrip(Tail(s)) ELSE s
RECURSIVE RStrip(_)
RStrip(s) == IF s # <<>> /\ s[Len(s)] \in Whitespace
             THEN RStrip(SubSeq(s, 1, Len(s) - 1)) ELSE s
\* str.strip()
Strip(s) == RStrip(LStrip(s))
\* str.lower()
Lower(s) == [i \in 1..Len(s) |-> LowerOf[s[i]]]

\* what the operator may type
Responses == { <<"Y">>, <<" ","Y","e","s"," ">>, <<>>, <<"n">>, <<"y","e","s","!">> }

\* line 146: input(...).strip().lower()
Normalise(raw) == Lower(Strip(raw))

\* Confirmed accepting any answer that begins with y
ConfirmedByPrefix(r) == r # <<>> /\ Head(r) = "y"

\* line 148: response in ['y', 'yes']
Confirmed(r) == r \in {<<"y">>, <<"y","e","s">>}

-----------------------------------------------------------------------------
(* cleanup_colliders.py *)

\* FindColliders matching the second prefix without its underscore
FindCollidersLoose(doc) ==
    IF doc.names.kind # "absent"
    THEN {doc.names.entries[i].id : i \in
            {j \in 1..Len(doc.names.entries) :
                \/ StartsWith(doc.names.entries[j].name, PrefixComposite)
                \/ StartsWith(doc.names.entries[j].name, NameCollider)}}
    ELSE {}

\* lines 20-31: the identifiers whose name starts with one of the prefixes
FindColliders(doc) ==
    IF doc.names.kind # "absent"
    THEN {doc.names.entries[i].id : i \in
            {j \in 1..Len(doc.names.entries) : IsColliderName(doc.names.entries[j].name)}}
    ELSE {}

RECURSIVE FilterEntriesNoElse(_, _)
\* FilterEntries without the else branch of line 54: non-list entries are lost
FilterEntriesNoElse(section_data, ids) ==
    IF section_data = <<>> THEN <<>>
    ELSE LET entry == Head(section_data)
             rest  == FilterEntriesNoElse(Tail(section_data), ids)
         IN  IF entry.kind = "list" /\ entry.n >= 1 /\ entry.id \notin ids
             THEN <<entry>> \o rest ELSE rest

RECURSIVE FilterEntries(_, _)
\* lines 48-55: the loop that builds filtered_data
FilterEntries(section_data, ids) ==
    IF section_data = <<>> THEN <<>>
    ELSE LET entry == Head(section_data)
             rest  == FilterEntries(Tail(section_data), ids)
         IN  IF entry.kind = "list" /\ entry.n >= 1
             THEN IF entry.id \notin ids THEN <<entry>> \o rest ELSE rest
             ELSE <<entry>> \o rest

\* CleanSections leaving the `names` section as it was
CleanSectionsKeepNames(doc, ids) ==
    [s \in DOMAIN doc |->
        IF doc[s].kind = "list" /\ s # "names"
        THEN ListSection(FilterEntries(doc[s].entries, ids))
        ELSE doc[s]]

\* lines 43-62: every list section is replaced by its filtered copy when the
\* filter removed something
CleanSections(doc, ids) ==
    [s \in DOMAIN doc |->
        IF doc[s].kind = "list"
        THEN LET filtered_data == FilterEntries(doc[s].entries, ids)
             IN  IF Len(filtered_data) # Len(doc[s].entries)
                 THEN ListSection(filtered_data) ELSE doc[s]
        ELSE doc[s]]

\* line 65
BackupPath(scene_path) == WithSuffix(scene_path, SuffixBackup)

scene_path == argv[1]

EndRun(code, how) ==
    /\ pc' = "exit"
    /\ exitCode' = code
    /\ outcome' = how

\* lines 123-142: argument validation, then the banner and the guide
MainValidate ==
    /\ pc = "main"
    /\ \E args \in ArgLists :
        /\ argv' = args
        /\ \/ /\ Len(args) # 1
              /\ EndRun(1, "usage")
              /\ UNCHANGED events
           \/ /\ Len(args) = 1
              /\ ~Exists(fs, args[1])
              /\ EndRun(1, "not_found")
              /\ UNCHANGED events
           \/ /\ Len(args) = 1
              /\ Exists(fs, args[1])
              /\ PathSuffix(args[1]) # SuffixJson
              /\ EndRun(1, "not_json")
              /\ UNCHANGED events
           \/ /\ Len(args) = 1
              /\ Exists(fs, args[1])
              /\ PathSuffix(args[1]) = SuffixJson
              /\ events' = Append(events, "guide")
              /\ pc' = "prompt"
              /\ UNCHANGED <<exitCode, outcome>>
    /\ UNCHANGED <<response, fs, scene_data, collider_entities, fs0, prevOutcome, evars>>

\* lines 146-153: the prompt and the decision
MainConfirm ==
    /\ pc = "prompt"
    /\ \E raw \in Responses :
        /\ response' = Normalise(raw)
        /\ events' = Append(events, "prompt")
        /\ \/ /\ Confirmed(Normalise(raw))
              /\ pc' = "read"
              /\ UNCHANGED <<exitCode, outcome>>
           \/ /\ ~Confirmed(Normalise(raw))
              /\ EndRun(0, "cancelled")
    /\ UNCHANGED <<argv, fs, scene_data, collider_entities, fs0, prevOutcome, evars>>

\* lines 17-18: json.load of the scene; a truncated file is not JSON
ReadScene ==
    /\ pc = "read"
    /\ events' = Append(events, "read")
    /\ \/ /\ fs[scene_path].kind = "doc"
          /\ scene_data' = fs[scene_path].doc
          /\ pc' = "find"
          /\ UNCHANGED <<exitCode, outcome>>
       \/ /\ fs[scene_path].kind # "doc"
          /\ EndRun(1, "crashed_read")
          /\ UNCHANGED scene_data
    /\ UNCHANGED <<argv, response, fs, collider_entities, fs0, prevOutcome, evars>>

\* lines 20-62: identify the collider entities; return if there are none,
\* otherwise filter every list section in memory
FindAndFilter ==
    /\ pc = "find"
    /\ collider_entities' = FindColliders(scene_data)
    /\ \/ /\ FindColliders(scene_data) = {}
          /\ EndRun(0, "nothing")
          /\ UNCHANGED scene_data
       \/ /\ FindColliders(scene_data) # {}
          /\ scene_data' = CleanSections(scene_data, FindColliders(scene_data))
          /\ pc' = "backup"
          /\ UNCHANGED <<exitCode, outcome>>
    /\ UNCHANGED <<argv, response, fs, events, fs0, prevOutcome, evars>>

\* WriteBackup carrying on to the scene write after a failed backup
WriteBackupCarryOn ==
    /\ pc = "backup"
    /\ \/ /\ fs' = [fs EXCEPT ![BackupPath(argv[1])] = DocFile(scene_data)]
          /\ events' = Append(events, "backup")
       \/ /\ fs' = [fs EXCEPT ![BackupPath(argv[1])] = Partial]
          /\ events' = Append(events, "backup_failed")
    /\ pc' = "write"
    /\ UNCHANGED <<argv, response, scene_data, collider_entities, exitCode,
                   outcome, fs0, prevOutcome, evars>>

\* lines 64-68: scene_data, as it is by now, is dumped into the backup file;
\* an I/O failure leaves that file as it was (open failed) or truncated (the
\* dump failed), and ends the process
WriteBackup ==
    /\ pc = "backup"
    /\ \/ /\ fs' = [fs EXCEPT ![BackupPath(scene_path)] = DocFile(scene_data)]
          /\ events' = Append(events, "backup")
          /\ pc' = "write"
          /\ UNCHANGED <<exitCode, outcome>>
       \/ /\ \E left \in {fs[BackupPath(scene_path)], Partial} :
                fs' = [fs EXCEPT ![BackupPath(scene_path)] = left]
          /\ events' = Append(events, "backup_failed")
          /\ EndRun(1, "crashed_backup")
    /\ UNCHANGED <<argv, response, scene_data, collider_entities, fs0, prevOutcome, evars>>

\* lines 70-75, 150-151: the scene file is overwritten with the filtered
\* document; an I/O failure leaves it as it was or truncated
WriteScene ==
    /\ pc = "write"
    /\ \/ /\ fs' = [fs EXCEPT ![scene_path] = DocFile(scene_data)]
          /\ events' = Append(events, "write")
          /\ EndRun(0, "cleaned")
       \/ /\ \E left \in {fs[scene_path], Partial} :
                fs' = [fs EXCEPT ![scene_path] = left]
          /\ events' = Append(events, "write_failed")
          /\ EndRun(1, "crashed_write")
    /\ UNCHANGED <<argv, response, scene_data, collider_entities, fs0, prevOutcome, evars>>

\* the operator starts the tool again
RunAgain ==
    /\ pc = "exit"
    /\ pc' = "main"
    /\ fs0' = fs
    /\ prevOutcome' = IF outcome = "cleaned" THEN "cleaned" ELSE "other"
    /\ argv' = <<>>
    /\ response' = <<>>
    /\ scene_data' = NoDoc
    /\ collider_entities' = {}
    /\ events' = <<>>
    /\ exitCode' = NoExit
    /\ outcome' = "running"
    /\ UNCHANGED <<fs, evars>>


-----------------------------------------------------------------------------
(* MD/OLD MD/expand_tilemap.py *)

TargetId == 315
OtherId == TargetId + 1
DefaultOldWidth == 10
DefaultOldHeight == 10
DefaultNewWidth == 20
DefaultNewHeight == 20

\* A tile record (a JSON object), and dict.copy() of it
Tile(n) == [tile_id |-> n]
CopyTile(t) == [k \in DOMAIN t |-> t[k]]

\* tilemapData: a JSON object with the keys in `keys`
TilemapData(ks, ts, w, h) == [keys |-> ks, tiles |-> ts, width |-> w, height |-> h]
AllKeys == {"tiles", "width", "height"}
EmptyData == TilemapData({}, <<>>, 0, 0)

\* dict.get('tiles', [])
GetTiles(data) == IF "tiles" \in data.keys THEN data.tiles ELSE <<>>

\* the first entry of `tilemaps` whose identifier is 315 (0: none); lines 17-21
FindTilemap(scene) ==
    IF scene.kind = "absent" THEN 0
    ELSE LET hits == {i \in 1..Len(scene.entries) : scene.entries[i].id = TargetId}
         IN  IF hits = {} THEN 0 ELSE CHOOSE i \in hits : \A j \in hits : i <= j

\* line 23: `not tilemap_entity` is true for None and for the empty object
NotFound(scene) ==
    IF FindTilemap(scene) = 0 THEN TRUE
    ELSE scene.entries[FindTilemap(scene)].data.keys = {}

\* CountMismatch rejecting only arrays that are too short
CountTooSmall(existing_tiles, p) == Len(existing_tiles) < p.old_width * p.old_height

\* line 29
CountMismatch(existing_tiles, p) == Len(existing_tiles) # p.old_width * p.old_height

RECURSIVE RowLoopStride(_, _, _, _)
\* RowLoop with the source row stride taken from the new grid
RowLoopStride(existing_tiles, p, y, x) ==
    IF x >= p.new_width THEN <<>>
    ELSE LET orig_x == x % p.old_width
             orig_y == y % p.old_height
             orig_index == (orig_y * p.new_width + orig_x) % Len(existing_tiles)
         IN  <<CopyTile(existing_tiles[orig_index + 1])>>
                 \o RowLoopStride(existing_tiles, p, y, x + 1)

RECURSIVE RowLoop(_, _, _, _)
\* lines 37-45: the inner loop, from column x on, for row y
RowLoop(existing_tiles, p, y, x) ==
    IF x >= p.new_width THEN <<>>
    ELSE LET orig_x == x % p.old_width
             orig_y == y % p.old_height
             orig_index == orig_y * p.old_width + orig_x
         IN  <<CopyTile(existing_tiles[orig_index + 1])>>
                 \o RowLoop(existing_tiles, p, y, x + 1)

RECURSIVE GridLoop(_, _, _)
\* lines 34-45: the outer loop, from row y on
GridLoop(existing_tiles, p, y) ==
    IF y >= p.new_height THEN <<>>
    ELSE RowLoop(existing_tiles, p, y, 0) \o GridLoop(existing_tiles, p, y + 1)

\* lines 47-50: the entity's tiles, width and height are overwritten
UpdateTilemap(data, new_tiles, p) ==
    TilemapData(data.keys \cup AllKeys, new_tiles, p.new_width, p.new_height)

Expanded(scene, p) ==
    LET i == FindTilemap(scene)
        data == scene.entries[i].data
    IN  [scene EXCEPT !.entries[i].data =
            UpdateTilemap(data, GridLoop(GetTiles(data), p, 0), p)]

\* expand_tilemap, lines 9-59
ExpandTilemap ==
    /\ tpc = "call"
    /\ \/ /\ NotFound(disk)
          /\ ret' = "False"
          /\ UNCHANGED disk
       \/ /\ ~NotFound(disk)
          /\ CountMismatch(GetTiles(disk.entries[FindTilemap(disk)].data), params)
          /\ ret' = "False"
          /\ UNCHANGED disk
       \/ /\ ~NotFound(disk)
          /\ ~CountMismatch(GetTiles(disk.entries[FindTilemap(disk)].data), params)
          /\ disk' = Expanded(disk, params)
          /\ ret' = "True"
    /\ tpc' = "returned"
    /\ UNCHANGED <<params, texit, disk0, prevRet, cvars>>

\* ExpanderMain without the sys.exit(1) of the failure branch
ExpanderMainNoExit ==
    /\ tpc = "returned"
    /\ texit' = 0
    /\ tpc' = "exit"
    /\ UNCHANGED <<disk, params, ret, disk0, prevRet, cvars>>

\* __main__, lines 61-68
ExpanderMain ==
    /\ tpc = "returned"
    /\ texit' = IF ret = "True" THEN 0 ELSE 1
    /\ tpc' = "exit"
    /\ UNCHANGED <<disk, params, ret, disk0, prevRet, cvars>>

\* the tool is run again on the file it left, with the same parameters
ExpandAgain ==
    /\ tpc = "exit"
    /\ tpc' = "call"
    /\ disk0' = disk
    /\ prevRet' = ret
    /\ ret' = "none"
    /\ texit' = NoExit
    /\ UNCHANGED <<disk, params, cvars>>

\* Initial tile arrays: n distinct tiles, or n tiles of two alternating kinds
TilePattern(kind, n) ==
    [i \in 1..n |-> IF kind = "seq" THEN Tile(i - 1) ELSE Tile(i % 2)]
TileLengths == 0..(MaxOld * MaxOld) \cup {DefaultOldWidth * DefaultOldHeight}
InitialData ==
    {TilemapData(AllKeys, TilePattern(k, n), n, 1) :
        k \in {"seq", "alt"}, n \in TileLengths}
    \cup {TilemapData({"width", "height"}, <<>>, 1, 1), EmptyData}

TilemapEntry(id, data) == [id |-> id, data |-> data]
OtherEntry == TilemapEntry(OtherId, TilemapData(AllKeys, <<Tile(9)>>, 1, 1))
InitialTilemaps ==
    {[kind |-> "absent", entries |-> <<>>],
     [kind |-> "list", entries |-> <<>>],
     [kind |-> "list", entries |-> <<OtherEntry>>]}
    \cup {[kind |-> "list", entries |-> es] :
            es \in UNION {{<<TilemapEntry(TargetId, d)>>,
                           <<OtherEntry, TilemapEntry(TargetId, d)>>,
                           <<TilemapEntry(TargetId, d), TilemapEntry(TargetId, EmptyData)>>} :
                          d \in InitialData}}

Params(ow, oh, nw, nh) ==
    [old_width |-> ow, old_height |-> oh, new_width |-> nw, new_height |-> nh]
ParamSets ==
    {Params(ow, oh, nw, nh) : ow \in 1..MaxOld, oh \in 1..MaxOld,
                              nw \in 1..MaxNew, nh \in 1..MaxNew}
    \cup {Params(DefaultOldWidth, DefaultOldHeight, DefaultNewWidth, DefaultNewHeight)}

NoScene == [kind |-> "absent", entries |-> <<>>]
NoParams == Params(1, 1, 1, 1)

ExpanderIdle ==
    /\ tpc = "idle"
    /\ disk = NoScene
    /\ params = NoParams
    /\ ret = "none"
    /\ texit = NoExit
    /\ disk0 = NoScene
    /\ prevRet = "none"

CleanerIdle ==
    /\ pc = "idle"
    /\ argv = <<>>
    /\ response = <<>>
    /\ fs = [p \in Paths |-> Absent]
    /\ scene_data = NoDoc
    /\ collider_entities = {}
    /\ events = <<>>
    /\ exitCode = NoExit
    /\ outcome = "idle"
    /\ fs0 = fs
    /\ prevOutcome = "other"

ExpanderInit ==
    /\ tpc = "call"
    /\ disk \in InitialTilemaps
    /\ params \in ParamSets
    /\ ret = "none"
    /\ texit = NoExit
    /\ disk0 = disk
    /\ prevRet = "none"
    /\ CleanerIdle

ExpanderNext ==
    \/ ExpandTilemap
    \/ ExpanderMain
    \/ ExpandAgain

SpecExpander == ExpanderInit /\ [][ExpanderNext]_vars

InitialFs(d) ==
    [p \in Paths |->
        CASE p = PathScene -> DocFile(d)
          [] p \in {PathText, PathHidden} -> DocFile(NoDoc)
          [] OTHER -> Absent]

CleanerInit ==
    /\ pc = "main"
    /\ argv = <<>>
    /\ response = <<>>
    /\ \E d \in InitialScenes : fs = InitialFs(d)
    /\ scene_data = NoDoc
    /\ collider_entities = {}
    /\ events = <<>>
    /\ exitCode = NoExit
    /\ outcome = "running"
    /\ fs0 = fs
    /\ prevOutcome = "other"
    /\ ExpanderIdle

CleanerNext ==
    \/ MainValidate
    \/ MainConfirm
    \/ ReadScene
    \/ FindAndFilter
    \/ WriteBackup
    \/ WriteScene
    \/ RunAgain

SpecCleaner == CleanerInit /\ [][CleanerNext]_vars

-----------------------------------------------------------------------------
(* Properties of the Tile Expander, under SpecExpander *)

Called == tpc \in {"returned", "exit"}

\* the tiles of the entity the run starts from / ends with
HasTarget(scene) ==
    scene.kind = "list" /\ \E i \in 1..Len(scene.entries) : scene.entries[i].id = TargetId
TargetData(scene) == scene.entries[FindTilemap(scene)].data
TilesOf(scene) == IF "tiles" \in TargetData(scene).keys THEN TargetData(scene).tiles ELSE <<>>

\* new_tiles is old_tiles laid out by the modulo rule
TiledBy(new_tiles, old_tiles, p) ==
    /\ Len(new_tiles) = p.new_width * p.new_height
    /\ \A x \in 0..(p.new_width - 1), y \in 0..(p.new_height - 1) :
          new_tiles[y * p.new_width + x + 1]
              = old_tiles[(y % p.old_height) * p.old_width + (x % p.old_width) + 1]

\* C1: for new dimensions >= the old ones, when entity 315 exists with
\* exactly old_width*old_height tiles, the call leaves a tile array of length
\* new_width*new_height whose tile at y*new_width + x is the original tile at
\* (y mod old_height)*old_width + (x mod old_width), and sets the entity's
\* width and height to the new dimensions.
C1_TilingResult ==
    (/\ Called
     /\ params.new_width >= params.old_width
     /\ params.new_height >= params.old_height
     /\ HasTarget(disk0)
     /\ Len(TilesOf(disk0)) = params.old_width * params.old_height)
    => /\ TiledBy(TilesOf(disk), TilesOf(disk0), params)
       /\ TargetData(disk).width = params.new_width
       /\ TargetData(disk).height = params.new_height

\* a 2x2 grid of four distinct tiles has been expanded to 3x3
C1_Witness ==
    /\ Called
    /\ params = Params(2, 2, 3, 3)
    /\ HasTarget(disk0)
    /\ TilesOf(disk0) = <<Tile(0), Tile(1), Tile(2), Tile(3)>>
    /\ Len(TilesOf(disk)) = 9

\* C6: when `tilemaps` has no entry with identifier 315, or the located
\* entity's tile count differs from old_width*old_height, the call returns
\* False, the process exits with status 1 and the file is as it was; in every
\* other case it returns True and the process exits with status 0.
C6_FailureOutcomes ==
    Called =>
        LET fails == IF ~HasTarget(disk0) THEN TRUE
                     ELSE Len(TilesOf(disk0)) # params.old_width * params.old_height
        IN  /\ fails => (ret = "False" /\ disk = disk0)
            /\ ~fails => ret = "True"
            /\ tpc = "exit" => texit = (IF fails THEN 1 ELSE 0)

\* the process has exited with status 1 because the located entity holds
\* the wrong number of tiles
C6_Witness ==
    /\ tpc = "exit"
    /\ texit = 1
    /\ HasTarget(disk0)
    /\ Len(TilesOf(disk0)) = 3
    /\ params.old_width * params.old_height = 4

DimsDiffer ==
    params.new_width # params.old_width \/ params.new_height # params.old_height

\* C9 as stated: after a successful expansion to different dimensions, a
\* second run with the same parameters again completes an expansion, re-tiling
\* the enlarged array by the modulo rule.
C9_AsStated ==
    (Called /\ prevRet = "True" /\ DimsDiffer)
    => /\ ret = "True"
       /\ TiledBy(TilesOf(disk), TilesOf(disk0), params)

\* C9 amended: after a successful expansion, a second run with the same
\* parameters fails the tile-count check (returns False, file unchanged)
\* whenever new_width*new_height differs from old_width*old_height; it
\* completes a re-tiling by the modulo rule only when the two products are
\* equal.
C9_SecondRun ==
    (Called /\ prevRet = "True")
    => IF params.new_width * params.new_height # params.old_width * params.old_height
       THEN ret = "False" /\ disk = disk0
       ELSE ret = "True" /\ TiledBy(TilesOf(disk), TilesOf(disk0), params)

\* the second run after an expansion from 2x2 to 3x3 has returned False
C9_Witness ==
    /\ tpc = "exit"
    /\ prevRet = "True"
    /\ params = Params(2, 2, 3, 3)
    /\ ret = "False"
    /\ Len(TilesOf(disk)) = 9

-----------------------------------------------------------------------------
(* Properties of the Collider Cleaner, under SpecCleaner *)

YesAnswers == {<<"y">>, <<"y","e","s">>}
WriteEvents == {"backup", "backup_failed", "write", "write_failed"}
Happened(e) == \E i \in DOMAIN events : events[i] = e
\* every occurrence of event e comes after an occurrence of event d
Preceded(e, d) ==
    \A i \in DOMAIN events : events[i] = e => \E j \in 1..(i - 1) : events[j] = d

EndsWithJson(path) ==
    Len(path) >= 5 /\ SubSeq(path, Len(path) - 4, Len(path)) = <<".","j","s","o","n">>

\* the document the run found at the scene path
Original == fs0[PathScene].doc

\* the entry is a list whose first element is in ids
FirstIn(entry, ids) == entry.kind = "list" /\ entry.n >= 1 /\ entry.id \in ids

\* cleaned is original without the entries whose first element is in ids:
\* the kept entries, all of them, unchanged and in their original order
DropsExactly(original, cleaned, ids) ==
    LET keep == {i \in 1..Len(original) : ~FirstIn(original[i], ids)}
    IN  /\ Len(cleaned) = Cardinality(keep)
        /\ \A i \in keep : cleaned[Cardinality({j \in keep : j <= i})] = original[i]

CleanedFrom(original, cleaned, ids) ==
    \A s \in SectionNames :
        original[s].kind = "list"
        => /\ cleaned[s].kind = "list"
           /\ DropsExactly(original[s].entries, cleaned[s].entries, ids)

HasColliderName(doc) ==
    /\ doc.names.kind = "list"
    /\ \E i \in 1..Len(doc.names.entries) :
          \/ StartsWith(doc.names.entries[i].name, PrefixComposite)
          \/ StartsWith(doc.names.entries[i].name, PrefixCollider)

C3_BackupIsOriginal ==
    Happened("backup") => fs[PathBackup] = DocFile(Original)

\* C4: files are modified and a backup is created only if the stripped,
\* lower-cased answer is y or yes; after any other answer the run is at its
\* end with exit status 0 and every file as it was; no write is attempted
\* before the prompt has been answered.
C4_ConfirmationGate ==
    /\ (fs # fs0 \/ \E e \in WriteEvents : Happened(e))
          => (Happened("prompt") /\ response \in YesAnswers)
    /\ (Happened("prompt") /\ response \notin YesAnswers)
          => (pc = "exit" /\ exitCode = 0 /\ fs = fs0)
    /\ \A e \in WriteEvents : Preceded(e, "prompt")

\* the operator answered "yes!" and the run ended without a change
C4_Witness ==
    /\ pc = "exit"
    /\ response = <<"y","e","s","!">>
    /\ HasColliderName(Original)
    /\ fs = fs0

\* C5: when no `names` entry (or no `names` section) carries one of the two
\* prefixes, cleanup_scene_colliders returns without writing the scene file
\* or a backup file.
C5_NothingToClean ==
    (Happened("read") /\ fs0[PathScene].kind = "doc" /\ ~HasColliderName(Original))
    => /\ fs = fs0
       /\ ~\E e \in WriteEvents : Happened(e)
       /\ pc \in {"find", "exit"}
       /\ pc = "exit" => (outcome = "nothing" /\ exitCode = 0)

\* a confirmed run over a scene whose only name is "Collider" has returned
C5_Witness ==
    /\ pc = "exit"
    /\ outcome = "nothing"
    /\ Original.names.kind = "list"
    /\ Len(Original.names.entries) = 1
    /\ Original.names.entries[1].name = NameCollider

SceneIntact == fs[PathScene] = fs0[PathScene]
SceneCleaned ==
    /\ fs[PathScene].kind = "doc"
    /\ CleanedFrom(Original, fs[PathScene].doc, collider_entities)

\* the first two parts of C7: the overwrite of the scene file is attempted
\* only after the backup write has completed, and a run that fails at or
\* before the backup write leaves the scene file as it was
C7_Ordering ==
    /\ Preceded("write", "backup") /\ Preceded("write_failed", "backup")
    /\ pc = "write" => Happened("backup")
    /\ (pc \in {"main", "prompt", "read", "find", "backup"}
          \/ outcome \in {"crashed_read", "crashed_backup"}) => SceneIntact

\* C7 as stated: the backup write completes before the scene file is
\* overwritten, a failure at or before the backup write leaves the scene file
\* untouched, and so a run that found collider entities ends with the scene
\* file either fully cleaned or exactly as it was.
C7_AsStated ==
    /\ C7_Ordering
    /\ (pc = "exit" /\ collider_entities # {}) => (SceneIntact \/ SceneCleaned)

\* C7 amended: the ordering and the untouched-on-early-failure parts as
\* stated; a run that found collider entities ends with the scene file fully
\* cleaned or exactly as it was unless the final overwrite itself fails, and
\* then the scene file may be left truncated, with the backup file written.
C7_WriteOrdering ==
    /\ C7_Ordering
    /\ (pc = "exit" /\ collider_entities # {} /\ outcome # "crashed_write")
          => (SceneIntact \/ SceneCleaned)
    /\ outcome = "crashed_write" => fs[PathBackup].kind = "doc"

\* a confirmed run failed while writing the backup
C7_Witness ==
    /\ outcome = "crashed_backup"
    /\ collider_entities # {}
    /\ fs[PathBackup] = Partial

\* C8: when the argument count is not one, or the path does not exist, or
\* the path does not end in .json, main exits with status 1 with no guide
\* shown, no prompt, and no file read or written.
C8_ArgumentValidation ==
    (pc # "main" /\
        (IF Len(argv) # 1 THEN TRUE
         ELSE fs0[argv[1]].kind = "absent" \/ ~EndsWithJson(argv[1])))
    => /\ pc = "exit"
       /\ exitCode = 1
       /\ events = <<>>
       /\ fs = fs0

\* main rejected an existing file whose extension is .txt
C8_Witness ==
    /\ pc = "exit"
    /\ argv = <<PathText>>
    /\ outcome = "not_json"
    /\ exitCode = 1

\* C10: a completed cleanup leaves no `names` entry with a collider prefix in
\* the scene file, so the next confirmed run on that file identifies no
\* collider entity and leaves the scene file and the backup file unchanged.
C10_SecondRunNoOp ==
    /\ outcome = "cleaned" => ~HasColliderName(fs[PathScene].doc)
    /\ (prevOutcome = "cleaned" /\ Happened("read") /\ pc # "find")
          => (/\ pc = "exit"
              /\ outcome = "nothing"
              /\ collider_entities = {}
              /\ fs = fs0)

\* the run after a completed cleanup was confirmed and found nothing
C10_Witness ==
    /\ prevOutcome = "cleaned"
    /\ outcome = "nothing"
    /\ response \in YesAnswers
    /\ fs[PathBackup].kind = "doc"

=============================================================================
